---- MODULE Spec2Model ----
(***************************************************************************)
(* A model of ripe-ris-collector.py: the subnet aggregator                 *)
(* (get_unique_subnets), the resolution cascade (get_route_data and its    *)
(* source clients), the enrichment step (get_asn_info) and the             *)
(* checkpointed batch driver (process_routes).                             *)
(*                                                                         *)
(* Three specifications share the variables:                               *)
(*   SpecAgg      get_unique_subnets applied to bounded input files        *)
(*   SpecCascade  one call of get_route_data, one source per step          *)
(*   Spec         runs of process_routes, with kills and resumes           *)
(***************************************************************************)
EXTENDS Integers, Sequences, FiniteSets, TLC

(***************************************************************************)
(* Python / JSON values.  A value read from a JSON payload is a string, a  *)
(* number (kept with its str() form) or an absent key.                     *)
(***************************************************************************)
Str(s) == [ty |-> "str", s |-> s]

Num(s) == [ty |-> "int", s |-> s]

Absent == [ty |-> "absent", s |-> ""]

None == [ty |-> "none", s |-> ""]

\* dict.get(key, default)
Get(v, default) == IF v = Absent THEN default ELSE v

\* Python truthiness of a value
Truthy(v) == \/ v.ty = "str" /\ v.s # ""
             \/ v.ty = "int"

\* str.upper() on the strings of the model
Upper(s) ==
    CASE s = "na" -> "NA"
      [] s = "Org" -> "ORG"
      [] s = "EOrg" -> "EORG"
      [] s = "\"na\"" -> "\"NA\""
      [] s = "\"Org\"" -> "\"ORG\""
      [] OTHER -> s

\* str.replace('AS', '') on the strings of the model
StripAS(s) ==
    CASE s = "AS64500" -> "64500"
      [] s = "AS" -> ""
      [] OTHER -> s

\* f'"{x}"'
Quote(s) == "\"" \o s \o "\""

(***************************************************************************)
(* is_valid_data(asn, holder): "true", "false", or "raise" when .upper()   *)
(* is reached on a value that is not a string (AttributeError).            *)
(***************************************************************************)
is_valid_data(asn, holder) ==
    IF ~Truthy(asn) THEN "false"
    ELSE IF ~Truthy(holder) THEN "false"
    ELSE IF asn.ty # "str" THEN "raise"
    ELSE IF Upper(asn.s) = "NA" THEN "false"
    ELSE IF holder.ty # "str" THEN "raise"
    ELSE IF Upper(holder.s) = "NA" THEN "false"
    ELSE IF holder.s = "\"\"" THEN "false"
    ELSE "true"

(***************************************************************************)
(* The input log.  A line is the sequence of its whitespace-separated      *)
(* tokens; a token is a dotted quad of 1-3 digit groups (what ip_pattern   *)
(* matches) or any other word.                                             *)
(***************************************************************************)
Dotted(a, b, c, d) == [kind |-> "dotted", o |-> <<a, b, c, d>>]

Word == [kind |-> "word", o |-> <<>>]

\* re.findall(ip_pattern, line): the dotted tokens of the line, in order
FindIps(line) == SelectSeq(line, LAMBDA t : t.kind = "dotted")

\* ipaddress.ip_address(ip) accepts the token (otherwise ValueError)
IsIpAddress(t) == /\ t.kind = "dotted"
                  /\ \A i \in 1..4 : t.o[i] <= 255

\* the block built from the first and the third octet
NetworkOf_ThirdOctet(t) == <<t.o[1], t.o[3], 0, 0, 16>>

\* '.'.join(ip.split('.')[:2]) + '.0.0/16'
NetworkOf(t) == <<t.o[1], t.o[2], 0, 0, 16>>

\* ipaddress.ip_address(ip) in ipaddress.ip_network(subnet), a /16
InNetwork(t, subnet) == t.o[1] = subnet[1] /\ t.o[2] = subnet[2]

(***************************************************************************)
(* sorted() of the block strings "a.b.0.0/16": code-point order.           *)
(***************************************************************************)
RECURSIVE Digits(_)
Digits(n) == IF n < 10 THEN <<48 + n>> ELSE Digits(n \div 10) \o <<48 + (n % 10)>>

SubnetString(subnet) ==
    Digits(subnet[1]) \o <<46>> \o Digits(subnet[2]) \o <<46, 48, 46, 48, 47, 49, 54>>

RECURSIVE StrLess(_, _)
StrLess(s, t) ==
    IF t = <<>> THEN FALSE
    ELSE IF s = <<>> THEN TRUE
    ELSE IF Head(s) # Head(t) THEN Head(s) < Head(t)
    ELSE StrLess(Tail(s), Tail(t))

\* sorted(..., reverse=True)
RECURSIVE SortedList_Descending(_)
SortedList_Descending(S) ==
    IF S = {} THEN <<>>
    ELSE LET m == CHOOSE x \in S :
                    \A y \in S \ {x} : StrLess(SubnetString(y), SubnetString(x))
         IN  <<m>> \o SortedList_Descending(S \ {m})

RECURSIVE SortedList(_)
SortedList(S) ==
    IF S = {} THEN <<>>
    ELSE LET m == CHOOSE x \in S :
                    \A y \in S \ {x} : StrLess(SubnetString(x), SubnetString(y))
         IN  <<m>> \o SortedList(S \ {m})

(***************************************************************************)
(* get_unique_subnets(input_file)                                          *)
(***************************************************************************)
\* subnet_counts[network] = subnet_counts.get(network, 0) + 1
\* subnet_counts[network] = 1: a block is counted once however often seen
CountOne_NoIncrement(counts, network) ==
    IF network \in DOMAIN counts
    THEN counts
    ELSE (network :> 1) @@ counts

CountOne(counts, network) ==
    IF network \in DOMAIN counts
    THEN [counts EXCEPT ![network] = @ + 1]
    ELSE (network :> 1) @@ counts

RECURSIVE CountIps(_, _)
CountIps(counts, ips) ==
    IF ips = <<>> THEN counts
    ELSE LET ip == Head(ips)
             next == IF IsIpAddress(ip) THEN CountOne(counts, NetworkOf(ip))
                     ELSE counts
         IN  CountIps(next, Tail(ips))

RECURSIVE CountLines(_, _)
CountLines(counts, lines) ==
    IF lines = <<>> THEN counts
    ELSE CountLines(CountIps(counts, FindIps(Head(lines))), Tail(lines))

EmptyCounts == [n \in {} |-> 0]

get_unique_subnets(input_file) ==
    LET subnet_counts == CountLines(EmptyCounts, input_file)
    IN  [subnets |-> SortedList(DOMAIN subnet_counts), subnet_counts |-> subnet_counts]

(***************************************************************************)
(* get_sample_ip_for_subnet(subnet, input_file): the second token of the   *)
(* first line whose second token lies in the subnet; None when no line     *)
(* does; raises on a line with fewer than two tokens (IndexError) or whose *)
(* second token is no address (ValueError) met before that.                *)
(***************************************************************************)
RECURSIVE get_sample_ip_for_subnet(_, _)
get_sample_ip_for_subnet(subnet, lines) ==
    IF lines = <<>> THEN [kind |-> "none", ip |-> Word]
    ELSE LET line == Head(lines) IN
         IF Len(line) < 2 THEN [kind |-> "raise", ip |-> Word]
         ELSE IF ~IsIpAddress(line[2]) THEN [kind |-> "raise", ip |-> Word]
         ELSE IF InNetwork(line[2], subnet) THEN [kind |-> "ip", ip |-> line[2]]
         ELSE get_sample_ip_for_subnet(subnet, Tail(lines))

(***************************************************************************)
(* Attribution records, as get_route_data returns them                     *)
(* ({'data': {'asns': [{'asn':..., 'holder':..., 'country':...}]}}).       *)
(* country is Absent when the record carries no 'country' key.             *)
(***************************************************************************)
Record(asn, holder, country) == [asn |-> asn, holder |-> holder, country |-> country]

\* a client's None
NoRecord == Record("", "", None)

\* {'data': {'asns': [{'asn': 'NA', 'holder': '"NA"'}]}}
Unresolved == Record("NA", Quote("NA"), Absent)

(***************************************************************************)
(* ROUTING_APIS, in dict order, and the flat order in which the nested     *)
(* loops of get_route_data visit the endpoints.                            *)
(***************************************************************************)
\* the registries with LACNIC listed before RIPE
ROUTING_APIS_LacnicFirst ==
    << [rir |-> "LACNIC",  endpoints |-> 2],
       [rir |-> "RIPE",    endpoints |-> 3],
       [rir |-> "APNIC",   endpoints |-> 2],
       [rir |-> "AFRINIC", endpoints |-> 2],
       [rir |-> "ARIN",    endpoints |-> 2] >>

ROUTING_APIS ==
    << [rir |-> "RIPE",    endpoints |-> 3],
       [rir |-> "LACNIC",  endpoints |-> 2],
       [rir |-> "APNIC",   endpoints |-> 2],
       [rir |-> "AFRINIC", endpoints |-> 2],
       [rir |-> "ARIN",    endpoints |-> 2] >>

Source(rir, ep) == [rir |-> rir, ep |-> ep]

RECURSIVE EndpointsFrom(_)
EndpointsFrom(apis) ==
    IF apis = <<>> THEN <<>>
    ELSE [e \in 1..Head(apis).endpoints |-> Source(Head(apis).rir, e)]
         \o EndpointsFrom(Tail(apis))

EndpointList == EndpointsFrom(ROUTING_APIS)

TeamCymru == Source("TeamCymru", 0)

RDAP == Source("RDAP", 0)

\* bulk query, then every registry endpoint, then the RDAP fallback
SourceOrder == <<TeamCymru>> \o EndpointList \o <<RDAP>>

(***************************************************************************)
(* What the sources can answer.                                            *)
(***************************************************************************)
\* whois.cymru.com: a connection error, a response with no '|' line, a '|'
\* line with fewer than 7 fields, or a full line
CymruResponses ==
    { [kind |-> k, asn |-> "", name |-> "", cc |-> ""] : k \in {"error", "noline", "short"} }
    \cup { [kind |-> "line", asn |-> a, name |-> n, cc |-> "US"] :
             a \in {"64500", "NA", "na"}, n \in {"Org", "NA", ""} }

\* a JSON payload of a registry endpoint: a falsy value, a truthy value that
\* is no object, an object without the expected key (asns / entities /
\* handle), an object whose first element is no object (or an empty
\* originASN list), or an object with the asn and holder fields given
Payload(shape, asn, holder) == [shape |-> shape, asn |-> asn, holder |-> holder]

RirAsns(rir) ==
    IF rir = "RIPE" THEN {Str("64500"), Num("64500"), Str("NA"), Absent}
    ELSE {Str("AS64500"), Str("AS"), Num("64500"), Str("NA"), Absent}

RirHolders == {Str("Org"), Str("NA"), Str("na"), Str(""), Absent}

RirPayloads(rir) ==
    { Payload(sh, Absent, Absent) : sh \in {"falsy", "nonobject", "nokey", "badelem"} }
    \cup { Payload("rec", a, h) : a \in RirAsns(rir), h \in RirHolders }

\* requests.get(...): Timeout, another RequestException, a status other
\* than 200, a body that is no JSON (ValueError), or 200 with a payload
NoPayload == Payload("none", Absent, Absent)

RirResponses(rir) ==
    { [http |-> k, json |-> NoPayload] : k \in {"timeout", "reqerror", "status", "badjson"} }
    \cup { [http |-> "ok", json |-> j] : j \in RirPayloads(rir) }

\* IPWhois(sample_ip).lookup_rdap(): an exception or a result
RdapResponses ==
    { [kind |-> "error", asn |-> Absent, name |-> Absent, cc |-> ""] }
    \cup { [kind |-> "result", asn |-> a, name |-> n, cc |-> "US"] :
             a \in {Str("64500"), Str("NA"), Absent},
             n \in {Str("Org"), Str("NA"), Absent} }

(***************************************************************************)
(* The source clients.                                                     *)
(***************************************************************************)
query_team_cymru(resp) ==
    IF resp.kind = "line"
    THEN Record(resp.asn, Quote(resp.name), Str(resp.cc))
    ELSE NoRecord

\* the sleep in the finally clause is taken by the calling step
query_rir_api(resp) ==
    IF resp.http = "ok" THEN resp.json ELSE NoPayload

Outcome(kind, rec) == [kind |-> kind, rec |-> rec]

\* the body of get_route_data's loop for one endpoint answer:
\* "next" (try the next endpoint), "return" or "raise"
ParseRir(rir, data) ==
    IF data = NoPayload \/ data.shape = "falsy" THEN Outcome("next", NoRecord)
    ELSE IF data.shape = "nonobject" THEN Outcome("raise", NoRecord)
    ELSE IF data.shape = "nokey" THEN Outcome("next", NoRecord)
    ELSE IF data.shape = "badelem" THEN Outcome("raise", NoRecord)
    ELSE LET rawasn == Get(data.asn, Str("NA"))
             holder == Get(data.holder, Str("NA"))
         IN  IF rir # "RIPE" /\ rawasn.ty # "str" THEN Outcome("raise", NoRecord)
             ELSE LET asn == IF rir = "RIPE" THEN rawasn ELSE Str(StripAS(rawasn.s))
                      v == is_valid_data(asn, holder)
                  IN  IF v = "raise" THEN Outcome("raise", NoRecord)
                      ELSE IF v = "true"
                           THEN Outcome("return", Record(asn.s, Quote(holder.s), Absent))
                           ELSE Outcome("next", NoRecord)

\* the try block of the RDAP fallback: every exception in it is caught
ParseRdap(results) ==
    IF results.kind = "error" THEN Outcome("next", NoRecord)
    ELSE IF ~(Truthy(results.asn) /\ Truthy(results.name)) THEN Outcome("next", NoRecord)
    ELSE IF is_valid_data(results.asn, results.name) = "true"
         THEN Outcome("return", Record(results.asn.s, Quote(results.name.s), Str(results.cc)))
         ELSE Outcome("next", NoRecord)

(***************************************************************************)
(* What a source's answer carries as asn and holder, before any quoting:   *)
(* the values the validity rule of the data model speaks of.               *)
(***************************************************************************)
Answer(src, asn, holder) == [src |-> src, asn |-> asn, holder |-> holder]

NoAnswer == Answer(Source("", 0), Absent, Absent)

CymruAnswer(resp) ==
    IF resp.kind = "line" THEN Answer(TeamCymru, Str(resp.asn), Str(resp.name))
    ELSE Answer(TeamCymru, Absent, Absent)

RirAnswer(src, resp) ==
    IF resp.http = "ok" /\ resp.json.shape = "rec"
    THEN Answer(src,
                IF src.rir # "RIPE" /\ resp.json.asn.ty = "str"
                THEN Str(StripAS(resp.json.asn.s)) ELSE resp.json.asn,
                resp.json.holder)
    ELSE Answer(src, Absent, Absent)

RdapAnswer(results) == Answer(RDAP, results.asn, results.name)

(***************************************************************************)
(* Input logs of the model.                                                *)
(***************************************************************************)
\* "1 10.1.1.1", "1 10.1.2.2", "1 10.2.1.1": the end-to-end scenario
LogScenario ==
    << <<Word, Dotted(10, 1, 1, 1)>>,
       <<Word, Dotted(10, 1, 2, 2)>>,
       <<Word, Dotted(10, 2, 1, 1)>> >>

\* a line that is a lone address: it has no second token
LogLoneAddress ==
    << <<Word, Dotted(10, 1, 1, 1)>>,
       <<Dotted(10, 2, 1, 1)>> >>

\* a line with two addresses: 10.1.0.0/16 is no line's second token
LogTwoAddresses ==
    << <<Dotted(10, 1, 1, 1), Dotted(10, 2, 1, 1)>> >>

\* two blocks whose order as strings is not their order as numbers
LogNineTen ==
    << <<Word, Dotted(9, 1, 1, 1)>>,
       <<Word, Dotted(10, 2, 1, 1)>> >>

VARIABLES
    c_file,       \* get_route_data: the INPUT_FILE it reads
    c_subnet,     \* its argument
    c_pc,         \* where it stands: "cymru", "rir", "fallback", "rdap",
                  \* "returned", "raised" ("idle": not called)
    c_ep,         \* index in EndpointList of the endpoint to query next
    c_last,       \* the answer of the source queried last
    c_tried,      \* the sources queried so far, in order
    c_result,     \* the record returned
    c_calls,      \* number of outbound calls made
    c_undelayed   \* an outbound call was made and no delay taken since

cascVars == <<c_file, c_subnet, c_pc, c_ep, c_last, c_tried, c_result, c_calls, c_undelayed>>

VARIABLES
    d_input,            \* INPUT_FILE: the lines of the log
    d_answers,          \* which answers the sources give in this model:
                        \* "every" (one run) or "few" (several runs)
    fs_summary,         \* the summary CSV of each timestamp
    fs_detailed,        \* the detailed CSV of each timestamp
    fs_checkpoint,      \* the checkpoint log of each timestamp
    run,                \* number of runs of process_routes started so far
    pc,                 \* where the current run stands: "loop", "enrich",
                        \* "summary", "detailed", "checkpoint", "cleanup";
                        \* "done" (returned), "aborted" (an exception left
                        \* process_routes), "killed"; "idle": none started
    output_file,        \* timestamp of the summary file of the run
    detailed_output,    \* timestamp of the detailed file of the run
    checkpoint_file,    \* timestamp of the checkpoint log of the run
    processed_subnets,
    subnets,
    subnet_counts,
    idx,                \* position of the for loop in subnets (from 1)
    route_data,         \* the record get_route_data returned for the block
    e_rir,              \* get_asn_info: index in ROUTING_APIS of the next registry
    holder,
    country,
    lineno,             \* the detailed-file loop: next line of INPUT_FILE
    loaded,             \* the completed set read from the selected checkpoint
    h_run,              \* history: blocks this run queried, enriched, wrote
    h_failed,           \* history: blocks whose processing raised in this run
    h_queried,          \* history: per timestamp, blocks handed to the cascade
    h_requeried         \* history: <<timestamp, block>> handed to it again

drvVars == <<d_input, d_answers, fs_summary, fs_detailed, fs_checkpoint, run, pc, output_file,
             detailed_output, checkpoint_file, processed_subnets, subnets,
             subnet_counts, idx, route_data, e_rir, holder, country, lineno,
             loaded, h_run, h_failed, h_queried, h_requeried>>

VARIABLES
    a_input,      \* the aggregator's input log
    a_pc,         \* "start", "rows" ("idle": not used)
    a_subnets,    \* get_unique_subnets: the sorted blocks
    a_counts,     \* get_unique_subnets: subnet_counts
    a_rows        \* the summary rows built from them, in visit order

aggVars == <<a_input, a_pc, a_subnets, a_counts, a_rows>>

VARIABLES
    r_pc,             \* the repair pass: "start", "repair", "done" ("idle": not used)
    r_summary,        \* the summary file: its rows, as csv field values
    r_detailed,       \* the detailed file: its rows, as csv field values
    df_summary,       \* the data frames read from them
    df_detailed,
    missing_entries,  \* the indexes of df_detailed selected for repair
    r_k,              \* position in missing_entries
    updated,
    r_summary0,       \* history: the files when the pass began
    r_detailed0,
    r_lookups         \* history: what query_cymru_dns returned, per entry

repVars == <<r_pc, r_summary, r_detailed, df_summary, df_detailed, missing_entries, r_k,
             updated, r_summary0, r_detailed0, r_lookups>>

vars == <<cascVars, drvVars, aggVars, repVars>>

CascadeIdle ==
    /\ c_file = <<>>
    /\ c_subnet = <<>>
    /\ c_pc = "idle"
    /\ c_ep = 0
    /\ c_last = NoAnswer
    /\ c_tried = <<>>
    /\ c_result = NoRecord
    /\ c_calls = 0
    /\ c_undelayed = FALSE

CascadeInputs == {LogScenario, LogLoneAddress, LogTwoAddresses}

\* get_route_data(subnet) is called on a block of the input
CascadeInit ==
    /\ c_file \in CascadeInputs
    /\ c_subnet \in DOMAIN get_unique_subnets(c_file).subnet_counts
    /\ c_pc = "cymru"
    /\ c_ep = 1
    /\ c_last = NoAnswer
    /\ c_tried = <<>>
    /\ c_result = NoRecord
    /\ c_calls = 0
    /\ c_undelayed = FALSE

\* lines 141-144: the bulk query; no delay follows it
QueryTeamCymru ==
    /\ c_pc = "cymru"
    /\ \E resp \in CymruResponses :
         LET cymru_data == query_team_cymru(resp)
             valid == /\ cymru_data # NoRecord
                      /\ is_valid_data(Str(cymru_data.asn), Str(cymru_data.holder)) = "true"
         IN  /\ c_last' = CymruAnswer(resp)
             /\ c_pc' = IF valid THEN "returned" ELSE "rir"
             /\ c_result' = IF valid THEN cymru_data ELSE c_result
    /\ c_tried' = Append(c_tried, TeamCymru)
    /\ c_calls' = c_calls + 1
    /\ c_undelayed' = TRUE
    /\ UNCHANGED <<c_file, c_subnet, c_ep, drvVars, aggVars, repVars>>

\* lines 148-190: one endpoint; query_rir_api always sleeps before it returns
QueryRir ==
    /\ c_pc = "rir"
    /\ \E resp \in RirResponses(EndpointList[c_ep].rir) :
         LET out == ParseRir(EndpointList[c_ep].rir, query_rir_api(resp))
         IN  /\ c_last' = RirAnswer(EndpointList[c_ep], resp)
             /\ c_pc' = CASE out.kind = "return" -> "returned"
                          [] out.kind = "raise" -> "raised"
                          [] OTHER -> IF c_ep = Len(EndpointList) THEN "fallback" ELSE "rir"
             /\ c_result' = IF out.kind = "return" THEN out.rec ELSE c_result
             /\ c_ep' = IF out.kind = "next" /\ c_ep < Len(EndpointList)
                        THEN c_ep + 1 ELSE c_ep
    /\ c_tried' = Append(c_tried, EndpointList[c_ep])
    /\ c_calls' = c_calls + 1
    /\ c_undelayed' = FALSE
    /\ UNCHANGED <<c_file, c_subnet, drvVars, aggVars, repVars>>

\* lines 194-195 and 224-225: the sample address is picked outside any try
PickSample ==
    /\ c_pc = "fallback"
    /\ LET sample_ip == get_sample_ip_for_subnet(c_subnet, c_file)
       IN  /\ c_pc' = CASE sample_ip.kind = "raise" -> "raised"
                        [] sample_ip.kind = "none" -> "returned"
                        [] OTHER -> "rdap"
           /\ c_result' = IF sample_ip.kind = "none" THEN Unresolved ELSE c_result
    /\ UNCHANGED <<c_file, c_subnet, c_ep, c_last, c_tried, c_calls, c_undelayed, drvVars, aggVars, repVars>>

\* lines 196-225: the RDAP lookup; no delay follows it
LookupRdap ==
    /\ c_pc = "rdap"
    /\ \E results \in RdapResponses :
         LET out == ParseRdap(results)
         IN  /\ c_last' = RdapAnswer(results)
             /\ c_result' = IF out.kind = "return" THEN out.rec ELSE Unresolved
    /\ c_pc' = "returned"
    /\ c_tried' = Append(c_tried, RDAP)
    /\ c_calls' = c_calls + 1
    /\ c_undelayed' = TRUE
    /\ UNCHANGED <<c_file, c_subnet, c_ep, drvVars, aggVars, repVars>>

CascadeNext ==
    \/ QueryTeamCymru
    \/ QueryRir
    \/ PickSample
    \/ LookupRdap


(***************************************************************************)
(* Claims about the resolution cascade (checked under SpecCascade).        *)
(***************************************************************************)
HolderTexts == {"Org", "EOrg", "NA", "na", ""}

\* the text inside the quotes of a record's holder
Unquote(s) == IF \E t \in HolderTexts : Quote(t) = s
              THEN CHOOSE t \in HolderTexts : Quote(t) = s
              ELSE s

\* the validity rule of the data model on an asn and a holder text: both
\* present, non-empty, and neither "NA" in any letter case
TextValid(asn, text) ==
    /\ asn # "" /\ Upper(asn) # "NA"
    /\ text # "" /\ Upper(text) # "NA"

RecordValid(rec) == TextValid(rec.asn, Unquote(rec.holder))

AnswerValid(ans) ==
    /\ Truthy(ans.asn) /\ Truthy(ans.holder)
    /\ TextValid(ans.asn.s, ans.holder.s)

\* the order of the sources, written out
FixedOrder ==
    << Source("TeamCymru", 0),
       Source("RIPE", 1), Source("RIPE", 2), Source("RIPE", 3),
       Source("LACNIC", 1), Source("LACNIC", 2),
       Source("APNIC", 1), Source("APNIC", 2),
       Source("AFRINIC", 1), Source("AFRINIC", 2),
       Source("ARIN", 1), Source("ARIN", 2),
       Source("RDAP", 0) >>

AllTried == c_tried = FixedOrder

\* C4: the record get_route_data returns is valid (asn and holder present,
\* non-empty, neither "NA" in any case) or it is the canonical unresolved
\* record, and the unresolved record (or any answer carrying "NA") is
\* returned only after every source was tried.
C4_ResultValidOrUnresolved ==
    c_pc = "returned" =>
        \/ RecordValid(c_result)
        \/ c_result = Unresolved /\ AllTried

\* C5: the sources are attempted in the fixed order Team Cymru, RIPE,
\* LACNIC, APNIC, AFRINIC, ARIN (endpoints in listed order), RDAP; after a
\* source whose answer is valid no later source is attempted; a valid bulk
\* answer is the record returned, with no registry attempted.
C5_SourcePriority ==
    /\ Len(c_tried) <= Len(FixedOrder)
    /\ \A i \in 1..Len(c_tried) : c_tried[i] = FixedOrder[i]
    /\ AnswerValid(c_last) =>
          /\ c_pc \in {"returned", "raised"}
          /\ c_tried[Len(c_tried)] = c_last.src
          /\ c_pc = "returned" =>
                /\ c_result.asn = c_last.asn.s
                /\ c_result.holder = Quote(c_last.holder.s)
    /\ (c_tried # <<>> /\ c_pc = "returned" /\ c_last.src = TeamCymru) =>
          /\ c_tried = <<TeamCymru>>
          /\ c_result = Record(c_last.asn.s, Quote(c_last.holder.s), Str("US"))

\* C5 witness: the bulk source answered with valid data and its record was
\* returned.
C5_Witness ==
    /\ c_pc = "returned"
    /\ c_last.src = TeamCymru
    /\ AnswerValid(c_last)
    /\ c_result.asn = "64500"

\* C6: get_route_data raises no exception to its caller, whatever a source
\* answers and whatever the input log holds.
C6_CascadeNeverRaises == c_pc # "raised"

\* C7: between any two consecutive outbound calls the rate-limit delay is
\* taken: no outbound call is made while the previous call is still
\* undelayed.
C7_DelayBetweenCalls == [][c_calls' # c_calls => ~c_undelayed]_vars

(***************************************************************************)
(* The batch driver, process_routes.                                       *)
(***************************************************************************)
\* number of runs of process_routes the model follows
MaxRuns == 2

\* a run's timestamp names its three files; the timestamps are seconds
Batches == 1..MaxRuns

\* with every answer the model follows one run
RunLimit == IF d_answers = "every" THEN 1 ELSE MaxRuns

NoFile == [exists |-> FALSE, rows |-> <<>>]

\* a file with the rows below its header line (a checkpoint log has none)
File(rows) == [exists |-> TRUE, rows |-> rows]

\* open(..., 'w'): the file is truncated before the row is written
AppendRow_Truncate(file, row) == File(<<row>>)

\* open(..., 'a')
AppendRow(file, row) == File(Append(file.rows, row))

\* find_checkpoint_files(): os.listdir gives the names in any order
Listings(S) ==
    { f \in [1..Cardinality(S) -> S] : \A i, j \in 1..Cardinality(S) : f[i] = f[j] => i = j }

find_checkpoint_files == Listings({t \in Batches : fs_checkpoint[t].exists})

\* the detailed file named by the second after the checkpoint's
get_related_files_NextDetailed(ckpt) ==
    [summary |-> ckpt, detailed |-> IF ckpt < MaxRuns THEN ckpt + 1 ELSE 1]

\* the summary and detailed files that carry the checkpoint's timestamp
get_related_files(ckpt) == [summary |-> ckpt, detailed |-> ckpt]

RECURSIVE SeqToSet(_)
SeqToSet(q) == IF q = <<>> THEN {} ELSE {Head(q)} \cup SeqToSet(Tail(q))

\* lines 278-279, with the last entry of the log left out
ReadCheckpoint_DropLast(file) ==
    SeqToSet(SubSeq(file.rows, 1, Len(file.rows) - 1))

\* lines 278-279: processed_subnets = set(f.read().splitlines())
ReadCheckpoint(file) == SeqToSet(file.rows)

DriverInputs == {LogScenario, LogLoneAddress, LogNineTen}

\* what get_route_data hands to the driver: it raises, or returns a record
\* with or without a country, or the unresolved record
RouteDataOutcomes ==
    { Outcome("raise", NoRecord),
      Outcome("return", Record("64500", Quote("Org"), Str("US"))) }
    \cup IF d_answers = "every"
         THEN { Outcome("return", Record("64500", Quote("Org"), Absent)),
                Outcome("return", Unresolved) }
         ELSE {}

\* what a registry answers to get_asn_info's request: an exception or a body
\* that is no JSON object ("error"), an object with neither 'data' nor
\* 'objects' ("empty"), an object whose 'data' is a dict ("data"), an object
\* with 'objects' and no 'data' ("objects"), an object whose 'data' is a
\* non-empty list ("nondict")
Enrichment(kind, h, c) == [kind |-> kind, holder |-> h, country |-> c]

EnrichResponses ==
    { Enrichment(k, Absent, Absent) : k \in {"error", "empty", "objects", "nondict"} }
    \cup { Enrichment("data", Absent, Absent) }
    \cup IF d_answers = "every"
         THEN { Enrichment("data", h, c) : h \in {Absent, Str("EOrg")},
                                           c \in {Absent, Str("DE")} }
         ELSE {}

\* return {'data': {}}
NoEnrichment == Enrichment("data", Absent, Absent)

\* one iteration of get_asn_info's loop: TRUE when it returns the response
AsnInfoReturns(resp) == resp.kind \in {"data", "objects", "nondict"}

\* lines 314-315: the merge; asn_data['data'] raises KeyError without a
\* 'data' key and .get raises AttributeError on a list
Merge(asn_data, rec) ==
    IF asn_data.kind # "data" THEN [kind |-> "raise", holder |-> "", country |-> ""]
    ELSE [kind |-> "ok",
          holder |-> Get(asn_data.holder, Str(rec.holder)).s,
          country |-> Get(asn_data.country, Get(rec.country, Str(""))).s]

SummaryRow(subnet, asn, asn_desc, ctry, counts) ==
    [subnet |-> subnet, asn |-> asn, asn_desc |-> asn_desc, country |-> ctry,
     count |-> counts[subnet]]

DetailedRow(line, subnet, asn, asn_desc, ctry) ==
    [original_line |-> line, subnet |-> subnet, asn |-> asn, asn_desc |-> asn_desc,
     country |-> ctry]

NoRun == [queried |-> {}, enriched |-> {}, wrote |-> {}, earlier |-> {}]

fsVars == <<fs_summary, fs_detailed, fs_checkpoint>>

fileVars == <<output_file, detailed_output, checkpoint_file>>

subnetVars == <<subnets, subnet_counts>>

blockVars == <<route_data, e_rir, holder, country, lineno>>

histVars == <<h_queried, h_requeried>>

BlockCleared ==
    /\ route_data' = NoRecord
    /\ e_rir' = 0
    /\ holder' = ""
    /\ country' = ""
    /\ lineno' = 0

\* the process is gone, and its memory with it
ProcessEnds ==
    /\ output_file' = 0
    /\ detailed_output' = 0
    /\ checkpoint_file' = 0
    /\ processed_subnets' = {}
    /\ subnets' = <<>>
    /\ subnet_counts' = EmptyCounts
    /\ idx' = 0
    /\ BlockCleared
    /\ loaded' = {}
    /\ h_run' = NoRun
    /\ h_failed' = {}

DriverIdle ==
    /\ fs_summary = [t \in Batches |-> NoFile]
    /\ fs_detailed = [t \in Batches |-> NoFile]
    /\ fs_checkpoint = [t \in Batches |-> NoFile]
    /\ run = 0
    /\ pc = "idle"
    /\ output_file = 0
    /\ detailed_output = 0
    /\ checkpoint_file = 0
    /\ processed_subnets = {}
    /\ subnets = <<>>
    /\ subnet_counts = EmptyCounts
    /\ idx = 0
    /\ route_data = NoRecord
    /\ e_rir = 0
    /\ holder = ""
    /\ country = ""
    /\ lineno = 0
    /\ loaded = {}
    /\ h_run = NoRun
    /\ h_failed = {}
    /\ h_queried = [t \in Batches |-> {}]
    /\ h_requeried = {}

\* the timestamp of the latest run (0 before the first)
Latest ==
    LET used == {0} \cup {t \in Batches : fs_summary[t].exists}
    IN  CHOOSE t \in used : \A u \in used : u <= t

\* line 250: datetime.now() to the second: the second of the latest run, or
\* a later one
Now == {t \in Batches : t = Latest \/ t = Latest + 1}

Running == {"loop", "enrich", "summary", "detailed", "checkpoint", "cleanup"}

\* lines 250-298: timestamp, checkpoint selection, aggregation, file creation
StartRun ==
    /\ pc \notin Running
    /\ run < RunLimit
    /\ d_input # <<>>
    /\ \E use_checkpoint \in BOOLEAN :
       \E checkpoint_files \in find_checkpoint_files :
       \E choice \in 0..(Len(checkpoint_files) + 1) :
       \E timestamp \in Now :
         LET resume == /\ use_checkpoint
                       /\ checkpoint_files # <<>>
                       /\ 0 < choice /\ choice <= Len(checkpoint_files)
             cf == IF resume THEN checkpoint_files[choice] ELSE timestamp
             related_files == get_related_files(cf)
             of == IF resume THEN related_files.summary ELSE timestamp
             do == IF resume THEN related_files.detailed ELSE timestamp
             agg == get_unique_subnets(d_input)
         IN  /\ checkpoint_file' = cf
             /\ output_file' = of
             /\ detailed_output' = do
             /\ processed_subnets' = IF resume THEN ReadCheckpoint(fs_checkpoint[cf]) ELSE {}
             /\ loaded' = IF resume THEN SeqToSet(fs_checkpoint[cf].rows) ELSE {}
             /\ subnets' = agg.subnets
             /\ subnet_counts' = agg.subnet_counts
             /\ fs_summary' = IF fs_summary[of].exists THEN fs_summary
                              ELSE [fs_summary EXCEPT ![of] = File(<<>>)]
             /\ fs_detailed' = IF fs_detailed[do].exists THEN fs_detailed
                               ELSE [fs_detailed EXCEPT ![do] = File(<<>>)]
    /\ run' = run + 1
    /\ idx' = 1
    /\ pc' = "loop"
    /\ BlockCleared
    /\ h_run' = [NoRun EXCEPT !.earlier = {t \in Batches : \/ fs_summary[t].exists
                                                            \/ fs_detailed[t].exists
                                                            \/ fs_checkpoint[t].exists}]
    /\ h_failed' = {}
    /\ UNCHANGED <<d_input, d_answers, fs_checkpoint, histVars, cascVars, aggVars, repVars>>

\* lines 343-346: the except clause: the block is left and the loop goes on
Fail ==
    /\ h_failed' = h_failed \cup {subnets[idx]}
    /\ idx' = idx + 1
    /\ pc' = "loop"
    /\ BlockCleared

\* lines 301-303: a block of the completed set is skipped
SkipProcessed ==
    /\ pc = "loop"
    /\ idx <= Len(subnets)
    /\ subnets[idx] \in processed_subnets
    /\ idx' = idx + 1
    /\ UNCHANGED <<d_input, d_answers, fsVars, run, pc, fileVars, processed_subnets, subnetVars,
                   blockVars, loaded, h_run, h_failed, histVars, cascVars, aggVars, repVars>>

\* lines 305-309: get_route_data is called outside the try block, so what it
\* raises leaves process_routes; every record it returns, the unresolved one
\* included, has a one-element 'asns' list, so the test of line 309 is true
\* and get_asn_info is called next
CallGetRouteData ==
    /\ pc = "loop"
    /\ idx <= Len(subnets)
    /\ subnets[idx] \notin processed_subnets
    /\ \E out \in RouteDataOutcomes :
         IF out.kind = "raise"
         THEN /\ pc' = "aborted"
              /\ ProcessEnds
         ELSE /\ pc' = "enrich"
              /\ route_data' = out.rec
              /\ e_rir' = 1
              /\ h_run' = [h_run EXCEPT !.queried = @ \cup {subnets[idx]}]
              /\ UNCHANGED <<fileVars, processed_subnets, subnetVars, idx, holder, country,
                             lineno, loaded, h_failed>>
    /\ h_queried' = [h_queried EXCEPT ![checkpoint_file] = @ \cup {subnets[idx]}]
    /\ h_requeried' = IF loaded # {} /\ subnets[idx] \in h_queried[checkpoint_file]
                      THEN h_requeried \cup {<<checkpoint_file, subnets[idx]>>}
                      ELSE h_requeried
    /\ UNCHANGED <<d_input, d_answers, fsVars, run, cascVars, aggVars, repVars>>

\* lines 313-315: one request of get_asn_info, and the merge once it returns
EnrichQuery ==
    /\ pc = "enrich"
    /\ \E resp \in EnrichResponses :
         LET returns == AsnInfoReturns(resp) \/ e_rir = Len(ROUTING_APIS)
             asn_data == IF AsnInfoReturns(resp) THEN resp ELSE NoEnrichment
             m == Merge(asn_data, route_data)
         IN  IF ~returns
             THEN /\ e_rir' = e_rir + 1
                  /\ UNCHANGED <<pc, idx, route_data, holder, country, lineno, h_failed>>
             ELSE IF m.kind = "raise"
             THEN Fail
             ELSE /\ holder' = m.holder
                  /\ country' = m.country
                  /\ pc' = "summary"
                  /\ e_rir' = 0
                  /\ UNCHANGED <<idx, route_data, lineno, h_failed>>
    /\ h_run' = [h_run EXCEPT !.enriched = @ \cup {subnets[idx]}]
    /\ UNCHANGED <<d_input, d_answers, fsVars, run, fileVars, processed_subnets, subnetVars, loaded,
                   histVars, cascVars, aggVars, repVars>>

\* lines 320-327: the summary row is appended (or opening the file raises)
WriteSummary ==
    /\ pc = "summary"
    /\ \E io_ok \in BOOLEAN :
         IF io_ok
         THEN /\ fs_summary' = [fs_summary EXCEPT ![output_file] =
                    AppendRow(@, SummaryRow(subnets[idx], route_data.asn, holder, country,
                                            subnet_counts))]
              /\ h_run' = [h_run EXCEPT !.wrote = @ \cup {subnets[idx]}]
              /\ pc' = "detailed"
              /\ lineno' = 1
              /\ UNCHANGED <<idx, route_data, e_rir, holder, country, h_failed>>
         ELSE /\ Fail
              /\ UNCHANGED <<fs_summary, h_run>>
    /\ UNCHANGED <<d_input, d_answers, fs_detailed, fs_checkpoint, run, fileVars, processed_subnets,
                   subnetVars, loaded, histVars, cascVars, aggVars, repVars>>

\* the scan of INPUT_FILE left after its first line
LastLine_First(n, lines) == TRUE

\* line 331: for line in infile is exhausted after the last line
LastLine(n, lines) == n = Len(lines)

\* lines 330-334: one line of INPUT_FILE; line.split()[1] and ip_address
\* raise on a line without a second token that is an address
WriteDetailed ==
    /\ pc = "detailed"
    /\ LET line == d_input[lineno]
           bad == Len(line) < 2 \/ ~IsIpAddress(line[2])
       IN  IF bad
           THEN /\ Fail
                /\ UNCHANGED <<fs_detailed, h_run>>
           ELSE /\ IF InNetwork(line[2], subnets[idx])
                   THEN /\ fs_detailed' = [fs_detailed EXCEPT ![detailed_output] =
                              AppendRow(@, DetailedRow(line, subnets[idx], route_data.asn,
                                                       holder, country))]
                        /\ h_run' = [h_run EXCEPT !.wrote = @ \cup {subnets[idx]}]
                   ELSE UNCHANGED <<fs_detailed, h_run>>
                /\ lineno' = lineno + 1
                /\ pc' = IF LastLine(lineno, d_input) THEN "checkpoint" ELSE "detailed"
                /\ UNCHANGED <<idx, route_data, e_rir, holder, country, h_failed>>
    /\ UNCHANGED <<d_input, d_answers, fs_summary, fs_checkpoint, run, fileVars, processed_subnets,
                   subnetVars, loaded, histVars, cascVars, aggVars, repVars>>

\* lines 338-348: the checkpoint entry, the completed set, the delay
SaveCheckpoint ==
    /\ pc = "checkpoint"
    /\ \E io_ok \in BOOLEAN :
         IF io_ok
         THEN /\ fs_checkpoint' = [fs_checkpoint EXCEPT ![checkpoint_file] =
                    AppendRow(@, subnets[idx])]
              /\ processed_subnets' = processed_subnets \cup {subnets[idx]}
              /\ h_run' = [h_run EXCEPT !.wrote = @ \cup {subnets[idx]}]
              /\ idx' = idx + 1
              /\ pc' = "loop"
              /\ BlockCleared
              /\ UNCHANGED h_failed
         ELSE /\ Fail
              /\ UNCHANGED <<fs_checkpoint, processed_subnets, h_run>>
    /\ UNCHANGED <<d_input, d_answers, fs_summary, fs_detailed, run, fileVars, subnetVars, loaded,
                   histVars, cascVars, aggVars, repVars>>

\* the for loop is exhausted (check_missing is off)
EndLoop ==
    /\ pc = "loop"
    /\ idx > Len(subnets)
    /\ pc' = "cleanup"
    /\ UNCHANGED <<d_input, d_answers, fsVars, run, fileVars, processed_subnets, subnetVars, idx,
                   blockVars, loaded, h_run, h_failed, histVars, cascVars, aggVars, repVars>>

\* lines 401-408: the checkpoint log is removed if it exists
Cleanup ==
    /\ pc = "cleanup"
    /\ fs_checkpoint' = IF fs_checkpoint[checkpoint_file].exists
                        THEN [fs_checkpoint EXCEPT ![checkpoint_file] = NoFile]
                        ELSE fs_checkpoint
    /\ pc' = "done"
    /\ ProcessEnds
    /\ UNCHANGED <<d_input, d_answers, fs_summary, fs_detailed, run, histVars, cascVars, aggVars, repVars>>

\* the operator (or a crash) ends the process at any point of a run
Kill ==
    /\ pc \in Running
    /\ pc' = "killed"
    /\ ProcessEnds
    /\ UNCHANGED <<d_input, d_answers, fsVars, run, histVars, cascVars, aggVars, repVars>>

AggIdle ==
    /\ a_input = <<>>
    /\ a_pc = "idle"
    /\ a_subnets = <<>>
    /\ a_counts = EmptyCounts
    /\ a_rows = <<>>

RepairIdle ==
    /\ r_pc = "idle"
    /\ r_summary = <<>>
    /\ r_detailed = <<>>
    /\ df_summary = <<>>
    /\ df_detailed = <<>>
    /\ missing_entries = <<>>
    /\ r_k = 0
    /\ updated = FALSE
    /\ r_summary0 = <<>>
    /\ r_detailed0 = <<>>
    /\ r_lookups = <<>>

Init ==
    /\ CascadeIdle
    /\ AggIdle
    /\ RepairIdle
    /\ DriverIdle
    /\ d_input \in DriverInputs
    /\ d_answers = "few"

\* one run of process_routes, the sources giving every answer of the model
RunInit ==
    /\ CascadeIdle
    /\ AggIdle
    /\ RepairIdle
    /\ DriverIdle
    /\ d_input \in DriverInputs
    /\ d_answers = "every"

Next ==
    \/ StartRun
    \/ SkipProcessed
    \/ CallGetRouteData
    \/ EnrichQuery
    \/ WriteSummary
    \/ WriteDetailed
    \/ SaveCheckpoint
    \/ EndLoop
    \/ Cleanup
    \/ Kill

Spec == Init /\ [][Next]_vars

\* a first run has no completed set to skip
RunNext ==
    \/ StartRun
    \/ CallGetRouteData
    \/ EnrichQuery
    \/ WriteSummary
    \/ WriteDetailed
    \/ SaveCheckpoint
    \/ EndLoop
    \/ Cleanup
    \/ Kill

SpecRun == RunInit /\ [][RunNext]_vars

CascadeSpecInit ==
    /\ CascadeInit
    /\ AggIdle
    /\ RepairIdle
    /\ DriverIdle
    /\ d_input = <<>>
    /\ d_answers = "every"

SpecCascade == CascadeSpecInit /\ [][CascadeNext]_vars

(***************************************************************************)
(* Claims about the batch driver (checked under Spec and SpecRun).         *)
(***************************************************************************)
\* the rows of a sequence that are about a block
RowsOf(rows, subnet) == SelectSeq(rows, LAMBDA r : r.subnet = subnet)

\* the lines of the input log whose second token is an address of the block
LinesOf(lines, subnet) ==
    SelectSeq(lines, LAMBDA l : Len(l) >= 2 /\ IsIpAddress(l[2]) /\ InNetwork(l[2], subnet))

BlocksOf(lines) == DOMAIN get_unique_subnets(lines).subnet_counts

\* C1: across an interrupted run and the runs resumed from its checkpoint, no
\* block is queried by the cascade twice, no block has two summary rows, and
\* no block has more detailed rows than the input log has lines of it.
C1_IdempotentResume ==
    /\ h_requeried = {}
    /\ (pc \in Running /\ loaded # {}) =>
          \A s \in h_run.wrote :
              /\ Len(RowsOf(fs_summary[output_file].rows, s)) <= 1
              /\ Len(RowsOf(fs_detailed[detailed_output].rows, s)) <= Len(LinesOf(d_input, s))

\* C2: a step of a run deletes the run's checkpoint log only when every
\* block of the input has an entry in it.
C2_DeletedOnlyWhenComplete ==
    [][\A t \in Batches :
          (fs_checkpoint[t].exists /\ ~fs_checkpoint'[t].exists)
              => SeqToSet(subnets) \subseteq SeqToSet(fs_checkpoint[t].rows)]_vars

\* C3: an exception raised at any step of a block's processing is caught by
\* the driver: the run is never left by an exception.
C3_BlockExceptionCaught == pc # "aborted"

\* C8: a resumed run neither queries the cascade or the enrichment for a
\* block of the completed set it loaded, nor appends a summary row, a
\* detailed row or a checkpoint entry for it.
C8_CompletedBlocksSkipped ==
    loaded \cap (h_run.queried \cup h_run.enriched \cup h_run.wrote) = {}

\* C8 witness: a resumed run went through all blocks, skipping the ones it
\* loaded and processing another one down to its checkpoint entry.
C8_Witness ==
    /\ pc = "cleanup"
    /\ loaded # {}
    /\ h_run.queried # {}
    /\ \E s \in h_run.wrote : s \in processed_subnets

\* C10: once the enrichment of a block with a valid cascade record ends, the
\* block goes on to its rows, with the cascade's holder or the enrichment's
\* holder and the cascade's country or the enrichment's country.
C10_EnrichmentKeepsRecord ==
    [][(pc = "enrich" /\ RecordValid(route_data) /\ pc' \notin {"enrich", "killed"})
          => /\ pc' = "summary"
             /\ holder' \in {route_data.holder, "EOrg"}
             /\ country' \in {Get(route_data.country, Str("")).s, "DE"}]_vars

(***************************************************************************)
(* The aggregator on bounded input logs.                                   *)
(***************************************************************************)
\* number of lines of an input log
MaxLines == 3

\* the lines an input log is made of: an address after a count, a second
\* and a third block, a block that sorts after "10." as a string, two
\* addresses of one block on one line, a malformed address, no address
AggLines ==
    { <<Word, Dotted(10, 1, 1, 1)>>,
      <<Word, Dotted(10, 1, 2, 2)>>,
      <<Word, Dotted(10, 2, 1, 1)>>,
      <<Word, Dotted(9, 1, 1, 1)>>,
      <<Dotted(10, 1, 1, 1), Dotted(10, 1, 2, 2)>>,
      <<Word, Dotted(999, 1, 1, 1)>>,
      <<Word>> }

AggInputs == UNION { [1..n -> AggLines] : n \in 0..MaxLines }

AggInit ==
    /\ a_input \in AggInputs
    /\ a_pc = "start"
    /\ a_subnets = <<>>
    /\ a_counts = EmptyCounts
    /\ a_rows = <<>>

\* line 287: subnets, subnet_counts = get_unique_subnets(INPUT_FILE)
Aggregate ==
    /\ a_pc = "start"
    /\ LET agg == get_unique_subnets(a_input)
       IN  /\ a_subnets' = agg.subnets
           /\ a_counts' = agg.subnet_counts
    /\ a_pc' = "rows"
    /\ UNCHANGED <<a_input, a_rows, cascVars, drvVars, repVars>>

\* lines 300 and 321-327: the summary row of the next block in visit order
BuildSummaryRow ==
    /\ a_pc = "rows"
    /\ Len(a_rows) < Len(a_subnets)
    /\ a_rows' = Append(a_rows, SummaryRow(a_subnets[Len(a_rows) + 1], Unresolved.asn,
                                           Unresolved.holder, "", a_counts))
    /\ UNCHANGED <<a_input, a_pc, a_subnets, a_counts, cascVars, drvVars, repVars>>

AggNext ==
    \/ Aggregate
    \/ BuildSummaryRow

AggSpecInit ==
    /\ AggInit
    /\ CascadeIdle
    /\ RepairIdle
    /\ DriverIdle
    /\ d_input = <<>>
    /\ d_answers = "few"

SpecAgg == AggSpecInit /\ [][AggNext]_vars

(***************************************************************************)
(* Claims about the occurrence counts (checked under SpecAgg).             *)
(***************************************************************************)
\* the places <<line, token>> of the log that hold a valid address of the block
AddressesOf(lines, subnet) ==
    { p \in UNION { {i} \X (1..Len(lines[i])) : i \in 1..Len(lines) } :
        /\ IsIpAddress(lines[p[1]][p[2]])
        /\ NetworkOf(lines[p[1]][p[2]]) = subnet }

\* the lines of the log in which the block appears
LinesWith(lines, subnet) == { p[1] : p \in AddressesOf(lines, subnet) }

\* C9, as amended: the count of a block's summary row is the number of valid
\* addresses of the block in the input log, a line holding k of them adding
\* k; there is one row per block that appears, and none for another.
C9_CountIsAddressOccurrences ==
    a_pc = "rows" =>
        /\ \A i \in 1..Len(a_rows) :
              a_rows[i].count = Cardinality(AddressesOf(a_input, a_rows[i].subnet))
        /\ SeqToSet(a_subnets) = { s \in BlocksOf(a_input) : LinesWith(a_input, s) # {} }
        /\ \A i, j \in 1..Len(a_subnets) : a_subnets[i] = a_subnets[j] => i = j

\* C9 witness: every row is built, and one block's count exceeds the number
\* of lines it appears in.
C9_Witness ==
    /\ a_pc = "rows"
    /\ a_rows # <<>>
    /\ Len(a_rows) = Len(a_subnets)
    /\ \E i \in 1..Len(a_rows) :
          /\ a_rows[i].count = 2
          /\ Cardinality(LinesWith(a_input, a_rows[i].subnet)) = 1

\* C9 as stated: the count of a block's summary row is the number of input
\* lines in which the block appears.
C9_CountIsLineCount ==
    \A i \in 1..Len(a_rows) :
        a_rows[i].count = Cardinality(LinesWith(a_input, a_rows[i].subnet))

\* the tokens of a log that are syntactically valid IPv4 addresses
ValidTokens(lines) ==
    { lines[i][j] : <<i, j>> \in { p \in UNION { {i} \X (1..Len(lines[i])) : i \in 1..Len(lines) } :
                                     /\ lines[p[1]][p[2]].kind = "dotted"
                                     /\ \A k \in 1..4 : lines[p[1]][p[2]].o[k] \in 0..255 } }

\* a log without its malformed address tokens
WithoutMalformed(lines) ==
    [i \in 1..Len(lines) |->
        SelectSeq(lines[i], LAMBDA t : t.kind = "dotted" => \A k \in 1..4 : t.o[k] \in 0..255)]

\* C13: the blocks get_unique_subnets derives are exactly the a.b.0.0/16 of
\* the valid addresses a.b.c.d of the log, one block per pair of first two
\* octets; the malformed address tokens are skipped: the log with them and
\* the log without them give the same blocks and the same counts.
C13_BlockDerivation ==
    a_pc = "rows" =>
        /\ SeqToSet(a_subnets) = { <<t.o[1], t.o[2], 0, 0, 16>> : t \in ValidTokens(a_input) }
        /\ DOMAIN a_counts = SeqToSet(a_subnets)
        /\ \A t, u \in ValidTokens(a_input) :
              (\E i \in 1..Len(a_subnets) : InNetwork(t, a_subnets[i]) /\ InNetwork(u, a_subnets[i]))
                  <=> (t.o[1] = u.o[1] /\ t.o[2] = u.o[2])
        /\ a_counts = get_unique_subnets(WithoutMalformed(a_input)).subnet_counts

\* C13 witness: a log with a malformed address token and valid addresses of
\* two blocks was aggregated.
C13_Witness ==
    /\ a_pc = "rows"
    /\ Len(a_subnets) = 2
    /\ \E i \in 1..Len(a_input) : \E j \in 1..Len(a_input[i]) :
          a_input[i][j].kind = "dotted" /\ ~IsIpAddress(a_input[i][j])

(***************************************************************************)
(* More claims about the batch driver (checked under Spec and SpecRun).    *)
(***************************************************************************)
\* C12: a run that is not killed ends only in the Completed state, with
\* every block visited and the run's checkpoint log gone; no failure of a
\* source or of a block ends it before that.
C12_RunEndsCompleted ==
    [][(pc \in Running /\ pc' \notin Running /\ pc' # "killed")
          => /\ pc' = "done"
             /\ idx > Len(subnets)
             /\ ~fs_checkpoint'[checkpoint_file].exists]_vars

\* C14: a block that has an entry in a run's checkpoint log has its summary
\* row and all of its detailed rows in the run's files, and the in-memory
\* completed set holds only blocks that have their entry in the log.
C14_CheckpointAfterRows ==
    /\ \A t \in Batches : \A i \in 1..Len(fs_checkpoint[t].rows) :
          LET s == fs_checkpoint[t].rows[i]
          IN  /\ Len(RowsOf(fs_summary[t].rows, s)) >= 1
              /\ Len(RowsOf(fs_detailed[t].rows, s)) >= Len(LinesOf(d_input, s))
    /\ pc \in Running =>
          processed_subnets \subseteq SeqToSet(fs_checkpoint[checkpoint_file].rows)

\* C14 witness: the run has just appended the entry of a block with two
\* lines and holds the block in its completed set.
C14_Witness ==
    /\ pc = "loop"
    /\ \E s \in processed_subnets \ loaded :
          /\ s \in h_run.wrote
          /\ Len(LinesOf(d_input, s)) = 2
          /\ s \in SeqToSet(fs_checkpoint[checkpoint_file].rows)

\* the blocks of a run at the positions the loop has not reached
Unvisited == { subnets[i] : i \in { j \in 1..Len(subnets) : j > idx \/ (j = idx /\ pc = "loop") } }

\* C15, as amended: a run visits the blocks of the input in the ascending
\* order of their identifiers as strings (code-point order), each block
\* once; the order is a function of the input, fresh or resumed.
C15_VisitOrderIsStringOrder ==
    pc \in Running =>
        /\ \A i, j \in 1..Len(subnets) :
              i < j => StrLess(SubnetString(subnets[i]), SubnetString(subnets[j]))
        /\ SeqToSet(subnets) = BlocksOf(d_input)
        /\ idx \in 1..(Len(subnets) + 1)
        /\ \A i \in 1..Len(subnets) : i < idx => subnets[i] \in h_run.queried \cup loaded
        /\ Unvisited \cap (h_run.queried \cup h_run.enriched \cup h_run.wrote) = {}

\* C15 witness: a resumed run has visited 10.2.0.0/16 and is now at
\* 9.1.0.0/16.
C15_Witness ==
    /\ pc = "enrich"
    /\ loaded # {}
    /\ idx = 2
    /\ subnets = << <<10, 2, 0, 0, 16>>, <<9, 1, 0, 0, 16>> >>

\* C15 as stated: a run visits the blocks in the ascending order of their
\* identifiers, 9.1.0.0/16 before 10.2.0.0/16.
C15_VisitOrderIsNumericOrder ==
    pc \in Running =>
        \A i, j \in 1..Len(subnets) :
            i < j => \/ subnets[i][1] < subnets[j][1]
                     \/ subnets[i][1] = subnets[j][1] /\ subnets[i][2] < subnets[j][2]

\* a file only grew by appended rows
Grown(old, new) ==
    old.exists => /\ new.exists
                  /\ Len(old.rows) <= Len(new.rows)
                  /\ SubSeq(new.rows, 1, Len(old.rows)) = old.rows

\* C16: from the start of a run to the end of its main scan, fresh or
\* resumed, every summary file, detailed file and checkpoint log only grows
\* by appended rows: none is removed, recreated or truncated, and no row
\* changes or moves.
C16_AppendOnly ==
    [][pc # "cleanup" =>
          \A t \in Batches : /\ Grown(fs_summary[t], fs_summary'[t])
                             /\ Grown(fs_detailed[t], fs_detailed'[t])
                             /\ Grown(fs_checkpoint[t], fs_checkpoint'[t])]_vars

\* C16 witness: a resumed run appended a summary row and detailed rows to
\* files that held the rows of the interrupted run.
C16_Witness ==
    /\ pc = "checkpoint"
    /\ loaded # {}
    /\ Len(fs_summary[output_file].rows) >= 2
    /\ Len(fs_detailed[detailed_output].rows) >= 2
    /\ fs_summary[output_file].rows[Len(fs_summary[output_file].rows)].subnet \in h_run.wrote

\* C18: at every state of a run the summary file, the detailed file and the
\* checkpoint log of the driver carry one timestamp: the selected
\* checkpoint's after a resume selection, the new timestamp otherwise.
C18_BatchRunPairing ==
    pc \in Running =>
        /\ output_file = checkpoint_file
        /\ detailed_output = checkpoint_file
        /\ checkpoint_file \in Batches
        /\ loaded = {} => checkpoint_file = Latest
        /\ (loaded # {} /\ pc # "cleanup") =>
              /\ checkpoint_file \in h_run.earlier
              /\ loaded \subseteq SeqToSet(fs_checkpoint[checkpoint_file].rows)

\* C18 witness: a resumed run is writing the detailed rows of a block to the
\* files paired with the checkpoint log it loaded.
C18_Witness ==
    /\ pc = "detailed"
    /\ loaded # {}
    /\ fs_checkpoint[checkpoint_file].exists
    /\ subnets[idx] \in h_run.wrote
    /\ Len(RowsOf(fs_summary[checkpoint_file].rows, subnets[idx])) >= 1

\* C19: a run that does not resume changes no file of a batch that existed
\* when it started.
C19_FreshRunLeavesEarlierBatches ==
    [][(pc \in Running /\ loaded = {}) =>
          \A t \in h_run.earlier : /\ fs_summary'[t] = fs_summary[t]
                                   /\ fs_detailed'[t] = fs_detailed[t]
                                   /\ fs_checkpoint'[t] = fs_checkpoint[t]]_vars

\* C17: for a block whose cascade result is the unresolved record the driver
\* issues no enrichment query, and the row it writes carries the unresolved
\* values.
C17_EnrichmentOnlyWithAsn ==
    (pc \in {"enrich", "summary", "detailed", "checkpoint"} /\ route_data.asn = "NA") =>
        /\ subnets[idx] \notin h_run.enriched
        /\ pc # "enrich" => holder = Unresolved.holder /\ country = ""

(***************************************************************************)
(* The repair pass of process_routes (check_missing), lines 350-399, on    *)
(* the files the main scan left.  A file is the sequence of its rows, a    *)
(* row the values of its csv fields.                                       *)
(***************************************************************************)
\* a missing value of a data frame
NaN == [ty |-> "nan", s |-> ""]

\* pandas' default na_values, among the strings of the model
NaValues == {"", "NA"}

\* read_csv on one field: the strings of na_values are read as NaN
read_field(text) == IF text \in NaValues THEN NaN ELSE Str(text)

\* to_csv on one cell: NaN is written as the empty field (na_rep='')
to_field(cell) == IF cell = NaN THEN "" ELSE cell.s

\* lines 352-353: pd.read_csv(..., dtype={'asn': str, 'asn_desc': str})
read_csv(rows) ==
    [i \in 1..Len(rows) |->
        [rows[i] EXCEPT !.asn = read_field(@), !.asn_desc = read_field(@),
                        !.country = read_field(@)]]

\* lines 396-397: df.to_csv(..., index=False), whatever updated is
to_csv_Always(df, rows, rewrite) ==
    [i \in 1..Len(df) |->
        [df[i] EXCEPT !.asn = to_field(@), !.asn_desc = to_field(@),
                      !.country = to_field(@)]]

\* lines 395-397: if updated: df.to_csv(..., index=False)
to_csv(df, rows, rewrite) ==
    IF rewrite
    THEN [i \in 1..Len(df) |->
             [df[i] EXCEPT !.asn = to_field(@), !.asn_desc = to_field(@),
                           !.country = to_field(@)]]
    ELSE rows

\* lines 355-356: .str.replace('"""', '"') on the strings of the model
ReplaceQuotes(cell) ==
    CASE cell = Str("\"\"\"NA\"\"\"") -> Str("\"NA\"")
      [] cell = Str("\"\"\"Org\"\"\"") -> Str("\"Org\"")
      [] OTHER -> cell

\* .astype(str).str.upper() on a cell
UpperStr(cell) == IF cell = NaN THEN "NAN" ELSE Upper(cell.s)

\* lines 358-362: the selection of the rows to repair
IsMissing(row) ==
    \/ /\ UpperStr(row.asn) = "NA"
       /\ UpperStr(row.asn_desc) \in {"\"NA\"", "NA"}
    \/ /\ row.asn = NaN
       /\ row.asn_desc = NaN

RECURSIVE Indexes(_, _)
Indexes(df, i) ==
    IF i > Len(df) THEN <<>>
    ELSE (IF IsMissing(df[i]) THEN <<i>> ELSE <<>>) \o Indexes(df, i + 1)

\* query_cymru_dns(ip): (None, None), or the asn and the quoted description,
\* which is '""' when the answer has fewer than five fields
Dns(asn, asn_desc) == [asn |-> asn, asn_desc |-> asn_desc]

query_cymru_dns ==
    { Dns(None, None),
      Dns(Str("64999"), Str(Quote("DNSORG"))),
      Dns(Str("64999"), Str(Quote(""))) }

\* what the main scan resolved a block to: asn, holder text, country
ScanRecords ==
    { [asn |-> "64500", holder |-> "Org", country |-> "US"],
      [asn |-> "64500", holder |-> "Org", country |-> "NA"],
      [asn |-> "NA",    holder |-> "NA",  country |-> ""] }

\* lines 321-327: the summary row, written by to_csv: the holder field has
\* the value with its quotes
ScanSummary(lines, recs) ==
    LET agg == get_unique_subnets(lines)
    IN  [i \in 1..Len(agg.subnets) |->
            SummaryRow(agg.subnets[i], recs[i].asn, Quote(recs[i].holder), recs[i].country,
                       agg.subnet_counts)]

\* line 334: the detailed rows, written as text: the quotes around the
\* holder are the csv quoting of the field
RECURSIVE ScanDetailedOf(_, _, _, _)
ScanDetailedOf(lines, subnet, rec, i) ==
    IF i > Len(lines) THEN <<>>
    ELSE (IF InNetwork(lines[i][2], subnet)
          THEN <<DetailedRow(lines[i], subnet, rec.asn, rec.holder, rec.country)>>
          ELSE <<>>) \o ScanDetailedOf(lines, subnet, rec, i + 1)

RECURSIVE ScanDetailed(_, _, _)
ScanDetailed(lines, recs, i) ==
    LET agg == get_unique_subnets(lines)
    IN  IF i > Len(agg.subnets) THEN <<>>
        ELSE ScanDetailedOf(lines, agg.subnets[i], recs[i], 1) \o ScanDetailed(lines, recs, i + 1)

RepairInputs == {LogScenario, LogNineTen}

RepairInit ==
    /\ r_pc = "start"
    /\ \E lines \in RepairInputs :
       \E recs \in [1..Len(get_unique_subnets(lines).subnets) -> ScanRecords] :
          /\ r_summary = ScanSummary(lines, recs)
          /\ r_detailed = ScanDetailed(lines, recs, 1)
    /\ r_summary0 = r_summary
    /\ r_detailed0 = r_detailed
    /\ df_summary = <<>>
    /\ df_detailed = <<>>
    /\ missing_entries = <<>>
    /\ r_k = 0
    /\ updated = FALSE
    /\ r_lookups = <<>>

\* lines 352-363: the frames are read and the rows to repair selected
ReadFrames ==
    /\ r_pc = "start"
    /\ LET dd == [i \in 1..Len(r_detailed) |->
                     [read_csv(r_detailed)[i] EXCEPT !.asn_desc = ReplaceQuotes(@)]]
           ds == [i \in 1..Len(r_summary) |->
                     [read_csv(r_summary)[i] EXCEPT !.asn_desc = ReplaceQuotes(@)]]
       IN  /\ df_detailed' = dd
           /\ df_summary' = ds
           /\ missing_entries' = Indexes(dd, 1)
    /\ r_k' = 1
    /\ r_pc' = "repair"
    /\ UNCHANGED <<r_summary, r_detailed, updated, r_summary0, r_detailed0, r_lookups,
                   cascVars, drvVars, aggVars>>

\* lines 369-392: one entry of missing_entries
RepairEntry ==
    /\ r_pc = "repair"
    /\ r_k <= Len(missing_entries)
    /\ \E res \in query_cymru_dns :
         LET index == missing_entries[r_k]
             subnet == df_detailed[index].subnet
             summary_idx == { j \in 1..Len(df_summary) : df_summary[j].subnet = subnet }
             first == CHOOSE j \in summary_idx : \A l \in summary_idx : j <= l
         IN  /\ r_lookups' = Append(r_lookups, res)
             /\ IF Truthy(res.asn) /\ Truthy(res.asn_desc)
                THEN /\ df_detailed' = [df_detailed EXCEPT ![index].asn = res.asn,
                                                           ![index].asn_desc = res.asn_desc]
                     /\ df_summary' = IF summary_idx # {}
                                      THEN [df_summary EXCEPT ![first].asn = res.asn,
                                                              ![first].asn_desc = res.asn_desc]
                                      ELSE df_summary
                     /\ updated' = TRUE
                ELSE UNCHANGED <<df_detailed, df_summary, updated>>
    /\ r_k' = r_k + 1
    /\ UNCHANGED <<r_pc, r_summary, r_detailed, missing_entries, r_summary0, r_detailed0,
                   cascVars, drvVars, aggVars>>

\* lines 394-399: both files are rewritten if a row was updated
WriteFrames ==
    /\ r_pc = "repair"
    /\ r_k > Len(missing_entries)
    /\ r_detailed' = to_csv(df_detailed, r_detailed, updated)
    /\ r_summary' = to_csv(df_summary, r_summary, updated)
    /\ r_pc' = "done"
    /\ UNCHANGED <<df_summary, df_detailed, missing_entries, r_k, updated, r_summary0,
                   r_detailed0, r_lookups, cascVars, drvVars, aggVars>>

RepairNext ==
    \/ ReadFrames
    \/ RepairEntry
    \/ WriteFrames

RepairSpecInit ==
    /\ RepairInit
    /\ CascadeIdle
    /\ AggIdle
    /\ DriverIdle
    /\ d_input = <<>>
    /\ d_answers = "few"

SpecRepair == RepairSpecInit /\ [][RepairNext]_vars

(***************************************************************************)
(* Claims about the repair pass (checked under SpecRepair).                *)
(***************************************************************************)
\* a row of a file is unresolved: its asn or its holder is "NA" in any case,
\* or absent
RowUnresolved(row) == ~TextValid(row.asn, Unquote(row.asn_desc))

\* the lookups made for the detailed row at an index
LookupsOf(i) == { r_lookups[k] : k \in { l \in 1..Len(r_lookups) : missing_entries[l] = i } }

\* a lookup yielded both an ASN and a holder (which may be the empty text)
Yielded(res) == Truthy(res.asn) /\ res.asn_desc # None

\* C11: after the repair pass, an unresolved detailed row whose lookup
\* yielded an ASN and a holder carries them, and so does the summary row of
\* its block if that row was unresolved; every other row of both files has
\* the asn, the holder and the country it had.
C11_RepairPass ==
    r_pc = "done" =>
        /\ Len(r_detailed) = Len(r_detailed0)
        /\ Len(r_summary) = Len(r_summary0)
        /\ \A i \in 1..Len(r_detailed0) :
              IF RowUnresolved(r_detailed0[i]) /\ \E res \in LookupsOf(i) : Yielded(res)
              THEN \E res \in LookupsOf(i) : /\ Yielded(res)
                                             /\ r_detailed[i].asn = res.asn.s
                                             /\ r_detailed[i].asn_desc = res.asn_desc.s
              ELSE /\ r_detailed[i].asn = r_detailed0[i].asn
                   /\ r_detailed[i].asn_desc = r_detailed0[i].asn_desc
                   /\ r_detailed[i].country = r_detailed0[i].country
        /\ \A j \in 1..Len(r_summary0) :
              LET repaired == { res \in UNION { LookupsOf(i) : i \in { l \in 1..Len(r_detailed0) :
                                    r_detailed0[l].subnet = r_summary0[j].subnet } } : Yielded(res) }
              IN  IF RowUnresolved(r_summary0[j]) /\ repaired # {}
                  THEN \E res \in repaired : /\ r_summary[j].asn = res.asn.s
                                             /\ r_summary[j].asn_desc = res.asn_desc.s
                  ELSE /\ r_summary[j].asn = r_summary0[j].asn
                       /\ r_summary[j].asn_desc = r_summary0[j].asn_desc
                       /\ r_summary[j].country = r_summary0[j].country

\* C20: when the repair pass repairs no row (no row was selected, or every
\* lookup failed), the summary and the detailed file are after the pass
\* what they were before it.
C20_NoRepairNoRewrite ==
    (r_pc = "done" /\ \A k \in 1..Len(r_lookups) : r_lookups[k] = Dns(None, None)) =>
        /\ r_detailed = r_detailed0
        /\ r_summary = r_summary0

\* C20 witness: the pass ended after the lookup failed for every one of the
\* unresolved rows it selected.
C20_Witness ==
    /\ r_pc = "done"
    /\ Len(r_lookups) >= 2
    /\ \A k \in 1..Len(r_lookups) : r_lookups[k] = Dns(None, None)
    /\ \E i \in 1..Len(r_detailed) : r_detailed[i].asn = "NA"

====
